---- MODULE Spec2Model ----
(***************************************************************************)
(* Traveling-salesman round of RealChAuLa/DSA_CW (src/traveling_salesman): *)
(* the three solvers (brute_force.py, held_karp.py, nn_2opt.py) as         *)
(* operators computed the way the code computes them, and Game (game.py)   *)
(* with its pool of three solver tasks as a state machine.                 *)
(*                                                                         *)
(* Python lists are sequences; a Python index i of a list s is At(s, i),   *)
(* i.e. s[i + 1].  City indices, local indices and matrix indices keep     *)
(* their zero-based Python values; a matrix is a function on 0..n-1.       *)
(*                                                                         *)
(* Eight specifications share the variables:                               *)
(*   Spec        the game over rounds: selection, run_algorithms with its  *)
(*               pool tasks, the result popup and reset_game;              *)
(*   RoundSpec   one call of run_algorithms on a freshly constructed Game; *)
(*   SolverSpec  the three solvers constructed and started directly, the   *)
(*               way tests.py does;                                        *)
(*   DirectSpec  one solver object constructed on any labels (the home     *)
(*               city or an unknown label among them) and started again;   *)
(*   FaultSpec   calls of run_algorithms in which a solver task raises;    *)
(*   JudgeSpec   a round on distances that are not whole numbers;          *)
(*   HeurSpec    NearestNeighbor2Opt.start() followed statement by         *)
(*               statement on matrices that may hold infinite distances;   *)
(*   HeurLive    HeurSpec with the interpreter always taking the next      *)
(*               statement.                                                *)
(***************************************************************************)
EXTENDS Integers, Sequences, FiniteSets, TLC

\* ------------------------------------------------------------------ bounds
\* random.randint(DistMin, DistMax) is cut to DistMin..DistMin+WeightSpread,
\* with at most MaxHeavy pairs of cities drawn above DistMin.
WeightSpread == 1
MaxHeavy == 2
\* At most MaxChosen cities are chosen in a round.
MaxChosen == 3
\* start() is called at most MaxStarts times on one solver object.
MaxStarts == 2
\* The heuristic followed step by step runs on at most MaxLocal cities, the
\* home city included, with distances 1..MaxWeight or infinite.
MaxLocal == 5
MaxWeight == 2

\* ---------------------------------------------------------- program values
DistMin == 50
DistMax == 100
MinSelect == 2
MaxSelect == 7
\* float('inf'): above every sum of distances; Plus keeps it absorbing.
INF == 1000000
\* Python's None in the parent table and in next_city / last.
None == 0 - 1

\* Game.cities, cut to the first five of its ten labels (the universe of the
\* tests' all_cities_symmetric fixture).
Cities == <<"A", "B", "C", "D", "E">>

AlgorithmNames == <<"Brute Force", "Held-Karp", "Nearest Neighbor 2-Opt">>

\* ------------------------------------------------------------ list helpers
At(s, i) == s[i + 1]

Range(s) == {s[i] : i \in 1..Len(s)}

\* list.index(x): the zero-based position of the first occurrence of x.
IndexOf(s, x) == (CHOOSE i \in 1..Len(s) : s[i] = x /\ \A j \in 1..(i - 1) : s[j] # x) - 1

\* A comprehension that filters nothing.
Without_nothing(s, x) == s

\* [c for c in s if c != x]
RECURSIVE Without(_, _)
Without(s, x) ==
    IF s = <<>> THEN <<>>
    ELSE IF Head(s) = x THEN Without(Tail(s), x)
         ELSE <<Head(s)>> \o Without(Tail(s), x)

RemoveAt(s, i) == SubSeq(s, 1, i - 1) \o SubSeq(s, i + 1, Len(s))

Reverse(s) == [i \in 1..Len(s) |-> s[Len(s) + 1 - i]]

RECURSIVE PrependAll(_, _)
PrependAll(x, ps) ==
    IF ps = <<>> THEN <<>> ELSE <<(<<x>> \o Head(ps))>> \o PrependAll(x, Tail(ps))

\* itertools.permutations(s): every ordering of s, in lexicographic order of
\* the positions of s.
RECURSIVE ItertoolsPermutations(_)
RECURSIVE PermsFrom(_, _)
ItertoolsPermutations(s) == IF s = <<>> THEN << <<>> >> ELSE PermsFrom(s, 1)
PermsFrom(s, i) ==
    IF i > Len(s) THEN <<>>
    ELSE PrependAll(s[i], ItertoolsPermutations(RemoveAt(s, i))) \o PermsFrom(s, i + 1)

\* float addition with inf absorbing.
Plus(a, b) == IF a >= INF \/ b >= INF THEN INF ELSE a + b

\* ---------------------------------------------------------- distance data
NumCities == Len(Cities)
CityIdx == 0..(NumCities - 1)
Edges == {e \in CityIdx \X CityIdx : e[1] < e[2]}
Weights == DistMin..(IF DistMin + WeightSpread < DistMax THEN DistMin + WeightSpread ELSE DistMax)

\* The draws of one matrix: a weight for every pair i < j.
Draws == {w \in [Edges -> Weights] : Cardinality({e \in Edges : w[e] > DistMin}) <= MaxHeavy}

\* The fill without the mirrored assignment: only entries above the diagonal.
MatrixOf_upper_only(w) ==
    [i \in CityIdx |-> [j \in CityIdx |-> IF i < j THEN w[<<i, j>>] ELSE 0]]

\* The matrix Game.__init__ / reset_game fill from one draw per pair i < j.
MatrixOf(w) ==
    [i \in CityIdx |-> [j \in CityIdx |->
        IF i = j THEN 0 ELSE IF i < j THEN w[<<i, j>>] ELSE w[<<j, i>>]]]

\* Every matrix the constructor can fill within the bounds.
Matrices == {MatrixOf(w) : w \in Draws}

\* Length of a label tour measured on a matrix indexed like all_cities.
RECURSIVE LabelTourLength(_, _, _)
LabelTourLength(tour, dist, all_cities) ==
    IF Len(tour) < 2 THEN 0
    ELSE dist[IndexOf(all_cities, tour[1])][IndexOf(all_cities, tour[2])]
         + LabelTourLength(Tail(tour), dist, all_cities)

\* ------------------------------------------------------------- BruteForce
\* BruteForce.__init__: the fields start() reads.
BF_init(main_city, main_city_index, choosen_cities, distance_matrix, all_cities) ==
    LET chosen == Without(choosen_cities, main_city) IN
    [main_city |-> main_city,
     choosen_cities |-> chosen,
     distance_matrix |-> distance_matrix,
     best_distance |-> INF,
     best_route |-> <<>>,
     city_to_global_index |-> [c \in Range(chosen) |-> IndexOf(all_cities, c)],
     main_city_index |-> main_city_index]

\* Sum over i in range(len(perm) - 1) of distance_matrix[g(perm[i])][g(perm[i+1])].
RECURSIVE BF_inner(_, _, _)
BF_inner(bf, perm, i) ==
    IF i >= Len(perm) - 1 THEN 0
    ELSE bf.distance_matrix[bf.city_to_global_index[At(perm, i)]]
                           [bf.city_to_global_index[At(perm, i + 1)]]
         + BF_inner(bf, perm, i + 1)

\* BF_total that leaves out the way back to the home city.
BF_total_no_return(bf, perm) ==
    bf.distance_matrix[bf.main_city_index][bf.city_to_global_index[At(perm, 0)]]
    + BF_inner(bf, perm, 0)

BF_total(bf, perm) ==
    bf.distance_matrix[bf.main_city_index][bf.city_to_global_index[At(perm, 0)]]
    + BF_inner(bf, perm, 0)
    + bf.distance_matrix[bf.city_to_global_index[At(perm, Len(perm) - 1)]][bf.main_city_index]

\* An update that also replaces the best on a tie.
BF_better_or_equal(total, best) == total <= best

\* The update of one loop iteration: a route replaces the best only when
\* strictly shorter.
BF_better(total, best) == total < best

RECURSIVE BF_loop(_, _)
BF_loop(bf, perms) ==
    IF perms = <<>> THEN bf
    ELSE LET perm == Head(perms)
             total == BF_total(bf, perm)
         IN IF BF_better(total, bf.best_distance)
            THEN BF_loop([bf EXCEPT !.best_distance = total,
                                    !.best_route = <<bf.main_city>> \o perm \o <<bf.main_city>>],
                         Tail(perms))
            ELSE BF_loop(bf, Tail(perms))

\* A start() that uses up self.choosen_cities.
BF_start_consuming(bf) ==
    IF Len(bf.choosen_cities) = 0
    THEN [self |-> bf, cost |-> 0, tour |-> <<bf.main_city, bf.main_city>>]
    ELSE LET after == BF_loop(bf, ItertoolsPermutations(bf.choosen_cities))
         IN [self |-> [after EXCEPT !.choosen_cities = <<>>],
             cost |-> after.best_distance, tour |-> after.best_route]

\* BruteForce.start on an instance: the instance afterwards and the result.
BF_start(bf) ==
    IF Len(bf.choosen_cities) = 0
    THEN [self |-> bf, cost |-> 0, tour |-> <<bf.main_city, bf.main_city>>]
    ELSE LET after == BF_loop(bf, ItertoolsPermutations(bf.choosen_cities))
         IN [self |-> after, cost |-> after.best_distance, tour |-> after.best_route]

\* --------------------------------------------------------------- Held-Karp
Pow2(j) == 2 ^ j

\* mask & (1 << j)
Bit(mask, j) == (mask \div Pow2(j)) % 2 = 1

\* mask ^ (1 << j)
Xor1(mask, j) == IF Bit(mask, j) THEN mask - Pow2(j) ELSE mask + Pow2(j)

\* An __init__ that fills hk_matrix from distance_matrix[i][j], without the
\* translation to global indices.
HK_init_local(main_city, all_cities, distance_matrix, selected_cities) ==
    LET ordered == <<main_city>> \o Without(selected_cities, main_city)
        n == Len(ordered)
    IN [ordered_city_list |-> ordered,
        hk_matrix |-> [i \in 0..(n - 1) |-> [j \in 0..(n - 1) |-> distance_matrix[i][j]]]]

\* HeldKarpDP.__init__: home first, then the chosen cities without the home;
\* hk_matrix is the distance matrix restricted to them, in that order.
HK_init(main_city, all_cities, distance_matrix, selected_cities) ==
    LET ordered == <<main_city>> \o Without(selected_cities, main_city)
        n == Len(ordered)
        global_indices == [c \in Range(all_cities) |-> IndexOf(all_cities, c)]
    IN [ordered_city_list |-> ordered,
        hk_matrix |-> [i \in 0..(n - 1) |-> [j \in 0..(n - 1) |->
            distance_matrix[global_indices[At(ordered, i)]][global_indices[At(ordered, j)]]]]]

HK_n(hk) == Len(hk.ordered_city_list)

\* The relaxation test of the fill loop and of the closing loop.
HK_less(cost, best) == cost < best

\* A loop "for x in xs: if less(cost(x), best): ..." with a break after its first update.
LastUpdate_break(pairs) ==
    LET updates == {p \in pairs : HK_less(p[2], INF)}
    IN IF updates = {} THEN <<>>
       ELSE <<CHOOSE p \in updates : \A q \in updates : p[1] <= q[1]>>

\* A loop "for x in xs: if less(cost(x), best): best = cost(x); arg = x" that
\* starts from best = INF updates at x exactly when cost(x) is less than INF
\* and than the cost of every earlier x; its result is the last such x.
\*
\* The entry (mask, j) of dp and parent after the fill loop.  The loop takes
\* the masks in increasing order, so the row of prev_mask < mask is final
\* when it is read: the entry is computed from the final entries of
\* prev_mask.  Entries the loop never writes keep INF and None.
\* The last update of such a loop over the pairs <<x, cost(x)>>, or <<>>.
LastUpdate(pairs) ==
    LET updates == {p \in pairs : /\ HK_less(p[2], INF)
                                  /\ \A q \in pairs : q[1] < p[1] => HK_less(p[2], q[2])}
    IN IF updates = {} THEN <<>>
       ELSE <<CHOOSE p \in updates : \A q \in updates : q[1] <= p[1]>>

RECURSIVE HK_entry(_, _, _)
HK_entry(hk, mask, j) ==
    IF mask = 1 /\ j = 0 THEN [dp |-> 0, parent |-> None]
    ELSE IF ~Bit(mask, 0) \/ j = 0 \/ ~Bit(mask, j) THEN [dp |-> INF, parent |-> None]
    ELSE LET prev_mask == Xor1(mask, j)
             last == LastUpdate({<<k, Plus(HK_entry(hk, prev_mask, k).dp, hk.hk_matrix[k][j])>> :
                                    k \in {k2 \in 0..(HK_n(hk) - 1) : Bit(prev_mask, k2)}})
         IN IF last = <<>> THEN [dp |-> INF, parent |-> None]
            ELSE [dp |-> last[1][2], parent |-> last[1][1]]

\* dp and parent after the fill loop.
HK_table(hk) ==
    LET n == HK_n(hk) IN
    [dp |-> [m \in 0..(Pow2(n) - 1) |-> [j \in 0..(n - 1) |-> HK_entry(hk, m, j).dp]],
     parent |-> [m \in 0..(Pow2(n) - 1) |-> [j \in 0..(n - 1) |-> HK_entry(hk, m, j).parent]]]

\* HK_close with "last = j" outside the if: last ends as the final j.
HK_close_last_j(hk, t) ==
    LET last == LastUpdate({<<j, Plus(t.dp[Pow2(HK_n(hk)) - 1][j], hk.hk_matrix[j][0])>> :
                               j \in 1..(HK_n(hk) - 1)})
    IN IF last = <<>> THEN [min_cost |-> INF, last |-> None]
       ELSE [min_cost |-> last[1][2], last |-> HK_n(hk) - 1]

\* HK_close without the edge back to node 0.
HK_close_open(hk, t) ==
    LET last == LastUpdate({<<j, t.dp[Pow2(HK_n(hk)) - 1][j]>> : j \in 1..(HK_n(hk) - 1)})
    IN IF last = <<>> THEN [min_cost |-> INF, last |-> None]
       ELSE [min_cost |-> last[1][2], last |-> last[1][1]]

\* Close the tour: for j in range(1, n), from min_cost = INF and last = None.
HK_close(hk, t) ==
    LET last == LastUpdate({<<j, Plus(t.dp[Pow2(HK_n(hk)) - 1][j], hk.hk_matrix[j][0])>> :
                               j \in 1..(HK_n(hk) - 1)})
    IN IF last = <<>> THEN [min_cost |-> INF, last |-> None]
       ELSE [min_cost |-> last[1][2], last |-> last[1][1]]

\* while curr is not None: path.append(curr); follow parent, clear curr's bit.
RECURSIVE HK_walk(_, _, _, _)
HK_walk(t, mask, curr, path) ==
    IF curr = None THEN path
    ELSE HK_walk(t, Xor1(mask, curr), t.parent[mask][curr], Append(path, curr))

\* HK_path that does not append the closing 0.
HK_path_no_close(hk, t, last) ==
    LET walked == Reverse(HK_walk(t, Pow2(HK_n(hk)) - 1, last, <<>>))
    IN IF Len(walked) > 1 /\ At(walked, 0) = 0 /\ At(walked, 1) = 0 THEN Tail(walked) ELSE walked

\* The local-index path after reverse(), the duplicate-0 check and the
\* closing append.
HK_path(hk, t, last) ==
    LET walked == Reverse(HK_walk(t, Pow2(HK_n(hk)) - 1, last, <<>>))
        dedup == IF Len(walked) > 1 /\ At(walked, 0) = 0 /\ At(walked, 1) = 0
                 THEN Tail(walked) ELSE walked
    IN IF Len(dedup) = 0 \/ At(dedup, Len(dedup) - 1) # 0 THEN Append(dedup, 0) ELSE dedup

\* HeldKarpDP.start without the n == 1 edge case.
HK_start_no_edge_case(hk) ==
    LET t == HK_table(hk)
        c == HK_close(hk, t)
        path == HK_path(hk, t, c.last)
    IN [cost |-> c.min_cost,
        tour |-> [i \in 1..Len(path) |-> At(hk.ordered_city_list, path[i])]]

\* HeldKarpDP.start.
HK_start(hk) ==
    IF HK_n(hk) = 1
    THEN [cost |-> 0, tour |-> <<At(hk.ordered_city_list, 0), At(hk.ordered_city_list, 0)>>]
    ELSE LET t == HK_table(hk)
             c == HK_close(hk, t)
             path == HK_path(hk, t, c.last)
         IN [cost |-> c.min_cost,
             tour |-> [i \in 1..Len(path) |-> At(hk.ordered_city_list, path[i])]]

\* ------------------------------------------------- Nearest-Neighbor 2-opt
\* NearestNeighbor2Opt.__init__: the list is not filtered and the matrix is
\* kept as passed; the solver indexes it with positions of ordered_city_list.
NN_init(main_city, selected_cities_list, distance_matrix) ==
    [ordered_city_list |-> <<main_city>> \o selected_cities_list,
     dist |-> distance_matrix,
     n |-> 1 + Len(selected_cities_list)]

\* The scan with "<=": the last unvisited j among the nearest.
RECURSIVE NN_scan_or_equal(_, _, _, _, _)
NN_scan_or_equal(nn, visited, current, j, best) ==
    IF j >= nn.n THEN best
    ELSE IF j \notin visited /\ nn.dist[current][j] <= best.next_dist
         THEN NN_scan_or_equal(nn, visited, current, j + 1,
                               [next_city |-> j, next_dist |-> nn.dist[current][j]])
         ELSE NN_scan_or_equal(nn, visited, current, j + 1, best)

\* for j in range(n): the first unvisited j strictly nearer than the best.
RECURSIVE NN_scan(_, _, _, _, _)
NN_scan(nn, visited, current, j, best) ==
    IF j >= nn.n THEN best
    ELSE IF j \notin visited /\ nn.dist[current][j] < best.next_dist
         THEN NN_scan(nn, visited, current, j + 1,
                      [next_city |-> j, next_dist |-> nn.dist[current][j]])
         ELSE NN_scan(nn, visited, current, j + 1, best)

\* for _ in range(n - 1): extend the tour; raises when no city is reachable.
RECURSIVE NN_extend(_, _, _, _, _)
NN_extend(nn, visited, tour, current, steps) ==
    IF steps = 0 THEN [raised |-> FALSE, tour |-> Append(tour, 0)]
    ELSE LET best == NN_scan(nn, visited, current, 0, [next_city |-> None, next_dist |-> INF])
         IN IF best.next_city = None THEN [raised |-> TRUE, tour |-> tour]
            ELSE NN_extend(nn, visited \cup {best.next_city}, Append(tour, best.next_city),
                           best.next_city, steps - 1)

nearest_neighbor(nn) == NN_extend(nn, {0}, <<0>>, 0, nn.n - 1)

\* compute_cost over range(len(tour) - 2): the last edge is left out.
RECURSIVE compute_cost_open(_, _)
compute_cost_open(nn, tour) ==
    IF Len(tour) < 3 THEN 0
    ELSE nn.dist[tour[1]][tour[2]] + compute_cost_open(nn, Tail(tour))

RECURSIVE compute_cost(_, _)
compute_cost(nn, tour) ==
    IF Len(tour) < 2 THEN 0
    ELSE Plus(nn.dist[tour[1]][tour[2]], compute_cost(nn, Tail(tour)))

\* A reversal of tour[i : j + 2]: one position too far.
ReverseSegment_wide(tour, i, j) ==
    [p \in 1..Len(tour) |-> IF i + 1 <= p /\ p <= j + 2 THEN tour[(i + 1) + (j + 2) - p] ELSE tour[p]]

\* tour[i : j + 1] = reversed(tour[i : j + 1])
ReverseSegment(tour, i, j) ==
    [p \in 1..Len(tour) |-> IF i + 1 <= p /\ p <= j + 1 THEN tour[(i + 1) + (j + 1) - p] ELSE tour[p]]

\* The test with "<=": a swap of equal cost is applied too.
TwoOptImproves_or_equal(nn, tour, i, j) ==
    LET old == Plus(nn.dist[At(tour, i - 1)][At(tour, i)], nn.dist[At(tour, j)][At(tour, j + 1)])
        new == Plus(nn.dist[At(tour, i - 1)][At(tour, j)], nn.dist[At(tour, i)][At(tour, j + 1)])
    IN new <= old

\* The test turned round: a swap is applied when it makes the tour longer.
TwoOptImproves_longer(nn, tour, i, j) ==
    LET old == Plus(nn.dist[At(tour, i - 1)][At(tour, i)], nn.dist[At(tour, j)][At(tour, j + 1)])
        new == Plus(nn.dist[At(tour, i - 1)][At(tour, j)], nn.dist[At(tour, i)][At(tour, j + 1)])
    IN new > old

TwoOptImproves(nn, tour, i, j) ==
    LET old == Plus(nn.dist[At(tour, i - 1)][At(tour, i)], nn.dist[At(tour, j)][At(tour, j + 1)])
        new == Plus(nn.dist[At(tour, i - 1)][At(tour, j)], nn.dist[At(tour, i)][At(tour, j + 1)])
    IN new < old

\* One pass of the two for loops from (i, j) on: the scan goes on after a
\* reversal, on the tour as changed.
RECURSIVE TwoOptScan(_, _, _, _)
TwoOptScan(nn, st, i, j) ==
    LET n == Len(st.tour) IN
    IF i >= n - 2 THEN st
    ELSE IF j >= n - 1 THEN TwoOptScan(nn, st, i + 1, i + 2)
    ELSE IF TwoOptImproves(nn, st.tour, i, j)
         THEN TwoOptScan(nn, [tour |-> ReverseSegment(st.tour, i, j), improved |-> TRUE,
                              swaps |-> st.swaps + 1], i, j + 1)
         ELSE TwoOptScan(nn, st, i, j + 1)

\* while improved: scan again.
RECURSIVE two_opt(_, _)
two_opt(nn, tour) ==
    LET st == TwoOptScan(nn, [tour |-> tour, improved |-> FALSE, swaps |-> 0], 1, 2)
    IN IF st.improved THEN two_opt(nn, st.tour) ELSE st.tour

\* NearestNeighbor2Opt.start.
NN_start(nn) ==
    LET nn_tour == nearest_neighbor(nn) IN
    IF nn_tour.raised THEN [raised |-> TRUE, cost |-> 0, tour |-> <<>>]
    ELSE LET improved_tour == two_opt(nn, nn_tour.tour)
         IN [raised |-> FALSE,
             cost |-> compute_cost(nn, improved_tour),
             tour |-> [i \in 1..Len(improved_tour) |-> At(nn.ordered_city_list, improved_tour[i])]]

\* ------------------------------------------------------------ game state
VARIABLES
    distance_matrix,          \* Game.distance_matrix
    main_city,                \* Game.main_city
    player_selected_cities,   \* Game.player_selected_cities
    is_won,                   \* Game.is_won: <<>> until win_or_lose sets it, then <<b>>
    algorithm_times,          \* Game.algorithm_times: <<>> until stored, then <<dict>>
    pc,                       \* where the UI thread stands
    player_guess,             \* the argument of the run_algorithms call in progress
    task,                     \* state of each pool task
    result,                   \* what each finished task returned
    fetched,                  \* what the caller has taken with .get()
    finished,                 \* the tasks of the call in progress, in the order they completed
    returned,                 \* the return value of run_algorithms: <<>> or <<r>>
    solver,                   \* the solver objects a caller constructed itself
    runs,                     \* what their start() calls returned, in order
    frame                     \* the locals of a NearestNeighbor2Opt.start() in progress

vars == <<distance_matrix, main_city, player_selected_cities, is_won, algorithm_times,
          pc, player_guess, task, result, fetched, finished, returned, solver, runs,
          frame>>

Tasks == {"bf", "hk", "nn"}

NoResult == [cost |-> None, tour |-> <<>>, elapsed |-> "none"]

\* No start() of NearestNeighbor2Opt being followed.
NoFrame == [at |-> "none"]

\* No object constructed.
NoSolver == [raised |-> "none", built |-> FALSE]

\* The elapsed time a worker reports is kept symbolic, under the name of the
\* variable run_algorithms unpacks it into.
ElapsedName == [t \in Tasks |-> CASE t = "bf" -> "bf_time" [] t = "hk" -> "hk_time" [] t = "nn" -> "nn_time"]

\* Every list of at most MaxChosen distinct elements of S, in every order.
DistinctSeqs(S) ==
    UNION {{s \in [1..k -> S] : \A a, b \in 1..k : a # b => s[a] # s[b]} :
              k \in 0..(IF Cardinality(S) < MaxChosen THEN Cardinality(S) ELSE MaxChosen)}

\* The checked boxes in checkbox (label) order, the home city removed.
RECURSIVE InCheckboxOrder(_, _)
InCheckboxOrder(all_cities, checked) ==
    IF all_cities = <<>> THEN <<>>
    ELSE IF Head(all_cities) \in checked
         THEN <<Head(all_cities)>> \o InCheckboxOrder(Tail(all_cities), checked)
         ELSE InCheckboxOrder(Tail(all_cities), checked)

\* The three worker functions of game.py, on the arguments run_algorithms
\* builds: each solver gets the full matrix.
run_brute_force(main, selected, dist, all_cities) ==
    LET r == BF_start(BF_init(main, IndexOf(all_cities, main), selected, dist, all_cities))
    IN [cost |-> r.cost, tour |-> r.tour, elapsed |-> ElapsedName["bf"]]

run_held_karp(main, selected, dist, all_cities) ==
    LET r == HK_start(HK_init(main, all_cities, dist, selected))
    IN [cost |-> r.cost, tour |-> r.tour, elapsed |-> ElapsedName["hk"]]

run_nn_2opt(main, selected, dist) ==
    LET r == NN_start(NN_init(main, selected, dist))
    IN [cost |-> r.cost, tour |-> r.tour, elapsed |-> ElapsedName["nn"]]

RunTask(t, main, selected, dist, all_cities) ==
    CASE t = "bf" -> run_brute_force(main, selected, dist, all_cities)
      [] t = "hk" -> run_held_karp(main, selected, dist, all_cities)
      [] t = "nn" -> run_nn_2opt(main, selected, dist)

\* A minimum that keeps the last element of least key.
RECURSIVE PyMin_last(_, _)
PyMin_last(best, rest) ==
    IF rest = <<>> THEN best
    ELSE IF Head(rest).cost <= best.cost THEN PyMin_last(Head(rest), Tail(rest))
         ELSE PyMin_last(best, Tail(rest))

\* min(results, key=lambda x: x[0]): the first element of least key.
RECURSIVE PyMin(_, _)
PyMin(best, rest) ==
    IF rest = <<>> THEN best
    ELSE IF Head(rest).cost < best.cost THEN PyMin(Head(rest), Tail(rest))
         ELSE PyMin(best, Tail(rest))

\* A judgment that accepts any guess over the same cities.
win_or_lose_same_cities(guess, correct_path) ==
    Len(guess) = Len(correct_path) /\ Range(guess) = Range(correct_path)

\* Game.win_or_lose: list equality.
win_or_lose(guess, correct_path) == guess = correct_path

\* Game.__init__ / Game.reset_game: a fresh matrix, home city and selection.
FreshGame(m, home) ==
    /\ distance_matrix' = m
    /\ main_city' = home
    /\ player_selected_cities' = <<>>

Init ==
    /\ distance_matrix \in Matrices
    /\ main_city \in Range(Cities)
    /\ player_selected_cities = <<>>
    /\ is_won = <<>>
    /\ algorithm_times = <<>>
    /\ pc = "idle"
    /\ player_guess = <<>>
    /\ task = [t \in Tasks |-> "idle"]
    /\ result = [t \in Tasks |-> NoResult]
    /\ fetched = [t \in Tasks |-> NoResult]
    /\ finished = <<>>
    /\ returned = <<>>
    /\ solver = [t \in Tasks |-> NoSolver]
    /\ runs = [t \in Tasks |-> <<>>]
    /\ frame = NoFrame

\* on_check_button_click up to the assignment of game.player_selected_cities:
\* fewer than MinSelect or more than MaxSelect cities end the handler.
SelectCities ==
    /\ pc = "idle"
    /\ \E checked \in SUBSET Range(Cities) :
         LET selected_cities == Without(InCheckboxOrder(Cities, checked), main_city) IN
         /\ ~(Len(selected_cities) < MinSelect \/ Len(selected_cities) > MaxSelect)
         /\ Len(selected_cities) <= MaxChosen
         /\ player_selected_cities' = selected_cities
    /\ pc' = "chosen"
    /\ UNCHANGED <<distance_matrix, main_city, is_won, algorithm_times, player_guess,
                   task, result, fetched, returned, finished>>
    /\ UNCHANGED <<solver, runs, frame>>

\* on_check_button_click with an empty guess entry: the handler returns.
EmptyGuess ==
    /\ pc = "chosen"
    /\ pc' = "idle"
    /\ UNCHANGED <<distance_matrix, main_city, player_selected_cities, is_won,
                   algorithm_times, player_guess, task, result, fetched, returned, finished>>
    /\ UNCHANGED <<solver, runs, frame>>

\* The guesses tried: every closed tour over the selection, and the selection
\* left open (a guess of another length).
Guesses(home, selected) ==
    {<<home>> \o p \o <<home>> :
        p \in {q \in DistinctSeqs(Range(selected)) : Len(q) = Len(selected)}}
    \cup {<<home>> \o selected}

\* run_algorithms up to the three apply_async calls.
Dispatch ==
    /\ pc = "chosen"
    /\ task' = [t \in Tasks |-> "pending"]
    /\ result' = [t \in Tasks |-> NoResult]
    /\ fetched' = [t \in Tasks |-> NoResult]
    /\ finished' = <<>>
    /\ returned' = <<>>
    /\ pc' = "get_bf"
    /\ UNCHANGED <<distance_matrix, main_city, player_selected_cities, is_won,
                   algorithm_times, player_guess>>
    /\ UNCHANGED <<solver, runs, frame>>

\* A pool worker takes a queued task.
TaskStart(t) ==
    /\ task[t] = "pending"
    /\ task' = [task EXCEPT ![t] = "running"]
    /\ UNCHANGED <<distance_matrix, main_city, player_selected_cities, is_won,
                   algorithm_times, pc, player_guess, result, fetched, returned, finished>>
    /\ UNCHANGED <<solver, runs, frame>>

\* TaskFinish with the results gathered in completion order: a result goes
\* to the first slot still empty.
TaskFinish_completion_order(t) ==
    /\ task[t] = "running"
    /\ task' = [task EXCEPT ![t] = "done"]
    /\ LET slot == IF result["bf"] = NoResult THEN "bf"
                   ELSE IF result["hk"] = NoResult THEN "hk" ELSE "nn"
       IN result' = [result EXCEPT ![slot] =
                       RunTask(t, main_city, player_selected_cities, distance_matrix, Cities)]
    /\ finished' = Append(finished, t)
    /\ UNCHANGED <<distance_matrix, main_city, player_selected_cities, is_won,
                   algorithm_times, pc, player_guess, fetched, returned>>
    /\ UNCHANGED <<solver, runs, frame>>

\* The worker function runs to its return.
TaskFinish(t) ==
    /\ task[t] = "running"
    /\ task' = [task EXCEPT ![t] = "done"]
    /\ result' = [result EXCEPT ![t] =
                    RunTask(t, main_city, player_selected_cities, distance_matrix, Cities)]
    /\ finished' = Append(finished, t)
    /\ UNCHANGED <<distance_matrix, main_city, player_selected_cities, is_won,
                   algorithm_times, pc, player_guess, fetched, returned>>
    /\ UNCHANGED <<solver, runs, frame>>

\* A get() that also returns for a task whose worker raised.
GetReady_or_failed(t) == task[t] \in {"done", "failed"}

\* A get() that does not block.
GetReady_no_wait(t) == task[t] \in {"pending", "running", "done"}

\* AsyncResult.get() returns once its task is done.
GetReady(t) == task[t] = "done"

\* bf_result.get()
GetBF ==
    /\ pc = "get_bf"
    /\ GetReady("bf")
    /\ fetched' = [fetched EXCEPT !["bf"] = result["bf"]]
    /\ pc' = "get_hk"
    /\ UNCHANGED <<distance_matrix, main_city, player_selected_cities, is_won,
                   algorithm_times, player_guess, task, result, returned, finished>>
    /\ UNCHANGED <<solver, runs, frame>>

\* hk_result.get()
GetHK ==
    /\ pc = "get_hk"
    /\ GetReady("hk")
    /\ fetched' = [fetched EXCEPT !["hk"] = result["hk"]]
    /\ pc' = "get_nn"
    /\ UNCHANGED <<distance_matrix, main_city, player_selected_cities, is_won,
                   algorithm_times, player_guess, task, result, returned, finished>>
    /\ UNCHANGED <<solver, runs, frame>>

\* The list run_algorithms takes the minimum of, in its fixed order.
ResultsList(f) == <<f["bf"], f["hk"], f["nn"]>>

\* nn_result.get() and the rest of run_algorithms: the timings are stored,
\* the best result is picked, win_or_lose judges the guess.  The guess, an
\* argument that no statement before win_or_lose reads, is drawn here.
GetNNAndJudge ==
    /\ pc = "get_nn"
    /\ GetReady("nn")
    /\ \E g \in Guesses(main_city, player_selected_cities) : player_guess' = g
    /\ LET f == [fetched EXCEPT !["nn"] = result["nn"]]
           best == PyMin(Head(ResultsList(f)), Tail(ResultsList(f)))
       IN /\ fetched' = f
          /\ algorithm_times' = <<[a \in Range(AlgorithmNames) |->
                                    CASE a = "Brute Force" -> f["bf"].elapsed
                                      [] a = "Held-Karp" -> f["hk"].elapsed
                                      [] a = "Nearest Neighbor 2-Opt" -> f["nn"].elapsed]>>
          /\ is_won' = <<win_or_lose(player_guess', best.tour)>>
          /\ returned' = <<[is_won |-> win_or_lose(player_guess', best.tour),
                            best_path |-> best.tour]>>
    /\ pc' = "verdict"
    /\ UNCHANGED <<distance_matrix, main_city, player_selected_cities, task, result, finished>>
    /\ UNCHANGED <<solver, runs, frame>>

\* The rest of on_check_button_click: the result popup is opened and the
\* handler ends; the locals of the finished call are gone.
ShowResult ==
    /\ pc = "verdict"
    /\ pc' = "popup"
    /\ player_guess' = <<>>
    /\ task' = [t \in Tasks |-> "idle"]
    /\ result' = [t \in Tasks |-> NoResult]
    /\ fetched' = [t \in Tasks |-> NoResult]
    /\ finished' = <<>>
    /\ returned' = <<>>
    /\ UNCHANGED <<distance_matrix, main_city, player_selected_cities, is_won, algorithm_times>>
    /\ UNCHANGED <<solver, runs, frame>>

\* The OK button of the result popup: refresh_game calls reset_game.
Refresh ==
    /\ pc = "popup"
    /\ \E m \in Matrices, home \in Range(Cities) : FreshGame(m, home)
    /\ pc' = "idle"
    /\ UNCHANGED <<is_won, algorithm_times, player_guess, task, result, fetched, returned, finished>>
    /\ UNCHANGED <<solver, runs, frame>>

Next ==
    \/ SelectCities
    \/ EmptyGuess
    \/ Dispatch
    \/ \E t \in Tasks : TaskStart(t)
    \/ \E t \in Tasks : TaskFinish(t)
    \/ GetBF
    \/ GetHK
    \/ GetNNAndJudge
    \/ ShowResult
    \/ Refresh

Spec == Init /\ [][Next]_vars

\* One call of run_algorithms on a freshly constructed Game.
RoundNext ==
    \/ SelectCities
    \/ EmptyGuess
    \/ Dispatch
    \/ \E t \in Tasks : TaskStart(t)
    \/ \E t \in Tasks : TaskFinish(t)
    \/ GetBF
    \/ GetHK
    \/ GetNNAndJudge

RoundSpec == Init /\ [][RoundNext]_vars

\* ------------------------------------------------ the solvers on their own
\* The matrix the tests hand to NearestNeighbor2Opt: the distances among
\* [main_city] + selected_cities, indexed by position in that list.
nn_matrix(main, selected, dist, all_cities) ==
    LET ordered_list == <<main>> \o selected
        n == Len(ordered_list)
    IN [i \in 0..(n - 1) |-> [j \in 0..(n - 1) |->
           dist[IndexOf(all_cities, At(ordered_list, i))][IndexOf(all_cities, At(ordered_list, j))]]]

\* A solver constructed and started directly, as the tests do: BruteForce
\* and HeldKarpDP on the full matrix, NearestNeighbor2Opt on nn_matrix.
SolveDirect(t, main, selected, dist, all_cities) ==
    CASE t = "bf" -> run_brute_force(main, selected, dist, all_cities)
      [] t = "hk" -> run_held_karp(main, selected, dist, all_cities)
      [] t = "nn" -> run_nn_2opt(main, selected, nn_matrix(main, selected, dist, all_cities))

\* Every valid input: a symmetric matrix with zero diagonal, a home city and
\* a list of distinct cities other than the home city.
SolverInit ==
    /\ distance_matrix \in Matrices
    /\ main_city \in Range(Cities)
    /\ player_selected_cities \in DistinctSeqs(Range(Cities) \ {main_city})
    /\ is_won = <<>>
    /\ algorithm_times = <<>>
    /\ pc = "solvers"
    /\ player_guess = <<>>
    /\ task = [t \in Tasks |-> "idle"]
    /\ result = [t \in Tasks |-> NoResult]
    /\ fetched = [t \in Tasks |-> NoResult]
    /\ finished = <<>>
    /\ returned = <<>>
    /\ solver = [t \in Tasks |-> NoSolver]
    /\ runs = [t \in Tasks |-> <<>>]
    /\ frame = NoFrame

Solve(t) ==
    /\ pc = "solvers"
    /\ task[t] = "idle"
    /\ task' = [task EXCEPT ![t] = "done"]
    /\ result' = [result EXCEPT ![t] =
                    SolveDirect(t, main_city, player_selected_cities, distance_matrix, Cities)]
    /\ UNCHANGED <<distance_matrix, main_city, player_selected_cities, is_won,
                   algorithm_times, pc, player_guess, fetched, returned, finished>>
    /\ UNCHANGED <<solver, runs, frame>>

SolveBF == Solve("bf")
SolveHK == Solve("hk")
SolveNN == Solve("nn")

SolverNext == SolveBF \/ SolveHK \/ SolveNN

SolverSpec == SolverInit /\ [][SolverNext]_vars


\* ---------------------------------------- the solver classes on any labels
\* The solver classes constructed by a caller on the arguments run_algorithms
\* builds (the full matrix for each), the labels not restricted to what the
\* UI lets through: the home city may be among the selected cities, and a
\* label may be outside Game.cities.  One object is constructed, then
\* started up to MaxStarts times.
Unknown == "Z"

Labels == Range(Cities) \cup {Unknown}

\* The lists the caller passed in, as the statements of the solver leave
\* them.  BruteForce builds its own list (brute_force.py:7), keeps the
\* matrix by reference and only reads it; its writes go to self.best_*.
BF_leaves(main, selected, dist, all_cities) ==
    [selected |-> selected, distance_matrix |-> dist, all_cities |-> all_cities]

\* HeldKarpDP rebinds its parameter to a new list (held_karp.py:4) and
\* writes into hk_matrix, dp, parent and path, all created by itself.
HK_leaves(main, selected, dist, all_cities) ==
    [selected |-> selected, distance_matrix |-> dist, all_cities |-> all_cities]

\* An ordered_city_list that is the caller's list with the main city
\* inserted in place.
NN_leaves_inserted(main, selected, dist, all_cities) ==
    [selected |-> <<main>> \o selected, distance_matrix |-> dist,
     all_cities |-> all_cities]

\* NearestNeighbor2Opt concatenates into a new list (nn_2opt.py:3), keeps
\* the matrix by reference and only reads it; visited and tour are lists of
\* nearest_neighbor, and two_opt assigns into the tour start() hands it.
NN_leaves(main, selected, dist, all_cities) ==
    [selected |-> selected, distance_matrix |-> dist, all_cities |-> all_cities]

Leaves(t, main, selected, dist, all_cities) ==
    CASE t = "bf" -> BF_leaves(main, selected, dist, all_cities)
      [] t = "hk" -> HK_leaves(main, selected, dist, all_cities)
      [] t = "nn" -> NN_leaves(main, selected, dist, all_cities)

\* BruteForce(...): all_cities.index(city) raises ValueError for a city of
\* the filtered list that all_cities does not hold.
BF_construct(main, main_index, choosen_cities, dist, all_cities) ==
    IF \E c \in Range(Without(choosen_cities, main)) : c \notin Range(all_cities)
    THEN [raised |-> "ValueError", built |-> FALSE]
    ELSE [raised |-> "none", built |-> TRUE,
          self |-> BF_init(main, main_index, choosen_cities, dist, all_cities)]

\* HeldKarpDP(...): global_indices[city] raises KeyError while hk_matrix is
\* filled, for the main city or a city of the filtered list.
HK_construct(main, all_cities, dist, selected_cities) ==
    IF \E c \in Range(<<main>> \o Without(selected_cities, main)) : c \notin Range(all_cities)
    THEN [raised |-> "KeyError", built |-> FALSE]
    ELSE [raised |-> "none", built |-> TRUE,
          self |-> HK_init(main, all_cities, dist, selected_cities)]

\* NearestNeighbor2Opt(...): no label is looked up.
NN_construct(main, selected_cities_list, dist) ==
    [raised |-> "none", built |-> TRUE,
     self |-> NN_init(main, selected_cities_list, dist)]

\* The index a caller passes for the main city: all_cities.index(main_city)
\* where that exists, any index otherwise.
MainCityIndexes(main, all_cities) ==
    IF main \in Range(all_cities) THEN {IndexOf(all_cities, main)} ELSE 0..(Len(all_cities) - 1)

\* The lists of at most MaxChosen distinct labels, each in label order.
LabelLists ==
    {InCheckboxOrder(Cities \o <<Unknown>>, S) : S \in {T \in SUBSET Labels : Cardinality(T) <= MaxChosen}}

\* Any labels: a home city and a list of distinct labels.
DirectInit ==
    /\ distance_matrix \in Matrices
    /\ main_city \in Labels
    /\ player_selected_cities \in LabelLists
    /\ is_won = <<>>
    /\ algorithm_times = <<>>
    /\ pc = "direct"
    /\ player_guess = <<>>
    /\ task = [t \in Tasks |-> "idle"]
    /\ result = [t \in Tasks |-> NoResult]
    /\ fetched = [t \in Tasks |-> NoResult]
    /\ finished = <<>>
    /\ returned = <<>>
    /\ solver = [t \in Tasks |-> NoSolver]
    /\ runs = [t \in Tasks |-> <<>>]
    /\ frame = NoFrame

\* The constructor call.
Construct(t) ==
    /\ pc = "direct"
    /\ \A u \in Tasks : solver[u] = NoSolver
    /\ \E idx \in MainCityIndexes(main_city, Cities) :
         solver' = [solver EXCEPT ![t] =
            CASE t = "bf" -> BF_construct(main_city, idx, player_selected_cities, distance_matrix, Cities)
              [] t = "hk" -> HK_construct(main_city, Cities, distance_matrix, player_selected_cities)
              [] t = "nn" -> NN_construct(main_city, player_selected_cities, distance_matrix)]
    /\ LET left == Leaves(t, main_city, player_selected_cities, distance_matrix, Cities)
       IN /\ player_selected_cities' = left.selected
          /\ distance_matrix' = left.distance_matrix
    /\ UNCHANGED <<main_city, is_won, algorithm_times, pc, player_guess, task, result,
                   fetched, finished, returned, runs, frame>>

ConstructBF == Construct("bf")
ConstructHK == Construct("hk")
ConstructNN == Construct("nn")

\* What one start() call returns and what it leaves of the object.
StartOf(t, self) ==
    CASE t = "bf" -> LET r == BF_start(self) IN [self |-> r.self, cost |-> r.cost, tour |-> r.tour]
      [] t = "hk" -> LET r == HK_start(self) IN [self |-> self, cost |-> r.cost, tour |-> r.tour]
      [] t = "nn" -> LET r == NN_start(self) IN [self |-> self, cost |-> r.cost, tour |-> r.tour]

\* A start() call on the constructed object.
Start(t) ==
    /\ pc = "direct"
    /\ solver[t].built
    /\ Len(runs[t]) < MaxStarts
    /\ LET r == StartOf(t, solver[t].self)
       IN /\ solver' = [solver EXCEPT ![t].self = r.self]
          /\ runs' = [runs EXCEPT ![t] = Append(@, [cost |-> r.cost, tour |-> r.tour])]
    /\ LET left == Leaves(t, main_city, player_selected_cities, distance_matrix, Cities)
       IN /\ player_selected_cities' = left.selected
          /\ distance_matrix' = left.distance_matrix
    /\ UNCHANGED <<main_city, is_won, algorithm_times, pc, player_guess, task, result,
                   fetched, finished, returned, frame>>

StartBF == Start("bf")
StartHK == Start("hk")
StartNN == Start("nn")

DirectNext == ConstructBF \/ ConstructHK \/ ConstructNN \/ StartBF \/ StartHK \/ StartNN

DirectSpec == DirectInit /\ [][DirectNext]_vars


\* ------------------------------------------------ a round whose task raises
\* Calls of run_algorithms on one Game, and a caller that assigns
\* player_selected_cities itself (as the tests do) with a label outside
\* Game.cities, on a fresh Game or after a call that returned: the
\* constructor a worker calls then raises, apply_async keeps the exception,
\* and get() raises it in run_algorithms.
TaskRaises(t, main, selected, dist, all_cities) ==
    CASE t = "bf" -> ~BF_construct(main, IndexOf(all_cities, main), selected, dist, all_cities).built
      [] t = "hk" -> ~HK_construct(main, all_cities, dist, selected).built
      [] t = "nn" -> NN_start(NN_construct(main, selected, dist).self).raised

\* game.player_selected_cities = [...] with a label Game.cities lacks.
AssignSelection ==
    /\ pc \in {"idle", "verdict"}
    /\ \E selected \in {l \in LabelLists : Unknown \in Range(l)} :
          player_selected_cities' = selected
    /\ pc' = "chosen"
    /\ player_guess' = <<>>
    /\ task' = [t \in Tasks |-> "idle"]
    /\ result' = [t \in Tasks |-> NoResult]
    /\ fetched' = [t \in Tasks |-> NoResult]
    /\ finished' = <<>>
    /\ returned' = <<>>
    /\ UNCHANGED <<distance_matrix, main_city, is_won, algorithm_times>>
    /\ UNCHANGED <<solver, runs, frame>>

\* A worker function returns.
TaskReturn(t) ==
    /\ ~TaskRaises(t, main_city, player_selected_cities, distance_matrix, Cities)
    /\ TaskFinish(t)

\* A worker function raises: the pool stores the exception for get().
TaskRaise(t) ==
    /\ task[t] = "running"
    /\ TaskRaises(t, main_city, player_selected_cities, distance_matrix, Cities)
    /\ task' = [task EXCEPT ![t] = "failed"]
    /\ UNCHANGED <<distance_matrix, main_city, player_selected_cities, is_won,
                   algorithm_times, pc, player_guess, result, fetched, returned, finished>>
    /\ UNCHANGED <<solver, runs, frame>>

\* The get() run_algorithms is waiting in raises the stored exception: the
\* with block terminates the pool and the exception leaves run_algorithms
\* before any statement after the block has run.
GetRaise ==
    /\ \E t \in Tasks :
          /\ pc = CASE t = "bf" -> "get_bf" [] t = "hk" -> "get_hk" [] t = "nn" -> "get_nn"
          /\ task[t] = "failed"
    /\ task' = [t \in Tasks |-> IF task[t] \in {"pending", "running"} THEN "idle" ELSE task[t]]
    /\ pc' = "raised"
    /\ UNCHANGED <<distance_matrix, main_city, player_selected_cities, is_won,
                   algorithm_times, player_guess, result, fetched, returned, finished>>
    /\ UNCHANGED <<solver, runs, frame>>

FaultNext ==
    \/ SelectCities
    \/ AssignSelection
    \/ Dispatch
    \/ \E t \in Tasks : TaskStart(t)
    \/ \E t \in Tasks : TaskReturn(t)
    \/ \E t \in Tasks : TaskRaise(t)
    \/ GetBF
    \/ GetHK
    \/ GetNNAndJudge
    \/ GetRaise

FaultSpec == Init /\ [][FaultNext]_vars


\* ------------------------------------------- distances that are not whole
\* A caller assigns game.distance_matrix itself, each distance the
\* constructor can draw plus one half.  In this specification distances and
\* costs are held in halves: 2 * d + 1 stands for d + 0.5.
Halves(m) ==
    [i \in CityIdx |-> [j \in CityIdx |-> IF i = j THEN 0 ELSE 2 * m[i][j] + 1]]

\* int(x) on a value held in halves: the fraction is dropped.
PyInt(h) == (h \div 2) * 2

\* run_held_karp: HeldKarpDP.start returns int(min_cost); the other two
\* solvers return the sums as they are.
run_held_karp_halves(main, selected, dist, all_cities) ==
    LET r == HK_start(HK_init(main, all_cities, dist, selected))
    IN [cost |-> PyInt(r.cost), tour |-> r.tour, elapsed |-> ElapsedName["hk"]]

RunTaskHalves(t, main, selected, dist, all_cities) ==
    CASE t = "bf" -> run_brute_force(main, selected, dist, all_cities)
      [] t = "hk" -> run_held_karp_halves(main, selected, dist, all_cities)
      [] t = "nn" -> run_nn_2opt(main, selected, dist)

JudgeInit ==
    /\ distance_matrix \in {Halves(m) : m \in Matrices}
    /\ main_city \in Range(Cities)
    /\ player_selected_cities = <<>>
    /\ is_won = <<>>
    /\ algorithm_times = <<>>
    /\ pc = "idle"
    /\ player_guess = <<>>
    /\ task = [t \in Tasks |-> "idle"]
    /\ result = [t \in Tasks |-> NoResult]
    /\ fetched = [t \in Tasks |-> NoResult]
    /\ finished = <<>>
    /\ returned = <<>>
    /\ solver = [t \in Tasks |-> NoSolver]
    /\ runs = [t \in Tasks |-> <<>>]
    /\ frame = NoFrame

\* A worker function returns its (distance, path, elapsed).
TaskFinishHalves(t) ==
    /\ task[t] = "running"
    /\ task' = [task EXCEPT ![t] = "done"]
    /\ result' = [result EXCEPT ![t] =
                    RunTaskHalves(t, main_city, player_selected_cities, distance_matrix, Cities)]
    /\ finished' = Append(finished, t)
    /\ UNCHANGED <<distance_matrix, main_city, player_selected_cities, is_won,
                   algorithm_times, pc, player_guess, fetched, returned>>
    /\ UNCHANGED <<solver, runs, frame>>

JudgeNext ==
    \/ SelectCities
    \/ Dispatch
    \/ \E t \in Tasks : TaskStart(t)
    \/ \E t \in Tasks : TaskFinishHalves(t)
    \/ GetBF
    \/ GetHK
    \/ GetNNAndJudge

JudgeSpec == JudgeInit /\ [][JudgeNext]_vars


\* ---------------------------------- NearestNeighbor2Opt.start step by step
\* One call of start() on an object built on a symmetric matrix over its own
\* cities, followed statement by statement: an iteration of the for _ loop
\* of nearest_neighbor, the while test of two_opt, one (i, j) of its for
\* loops, the return.
LocalWeights == (1..MaxWeight) \cup {INF}

\* The city counts the labels allow, the home city included.
LocalSizes == 1..(IF MaxLocal < NumCities THEN MaxLocal ELSE NumCities)

LocalPairs(n) == {e \in (0..(n - 1)) \X (0..(n - 1)) : e[1] < e[2]}

\* The symmetric matrix with zero diagonal that has w above the diagonal.
LocalMatrix(n, w) ==
    [i \in 0..(n - 1) |-> [j \in 0..(n - 1) |->
        IF i = j THEN 0 ELSE IF i < j THEN w[<<i, j>>] ELSE w[<<j, i>>]]]

LocalObject(n, w) == NN_init(Cities[1], SubSeq(Cities, 2, n), LocalMatrix(n, w))

\* The locals at the head of the for _ loop of nearest_neighbor; nn_tour,
\* reversals and cost are filled in later.
FrameOf(nn) ==
    [at |-> "nearest_neighbor", nn |-> nn, visited |-> {0}, tour |-> <<0>>, current |-> 0,
     left |-> nn.n - 1, nn_tour |-> <<>>, improved |-> FALSE, i |-> 0, j |-> 0,
     reversals |-> 0, cost |-> None, str_tour |-> <<>>]

HeurInit ==
    /\ \E n \in LocalSizes : \E w \in [LocalPairs(n) -> LocalWeights] :
          frame = FrameOf(LocalObject(n, w))
    /\ distance_matrix = <<>>
    /\ main_city = Cities[1]
    /\ player_selected_cities = <<>>
    /\ is_won = <<>>
    /\ algorithm_times = <<>>
    /\ pc = "heuristic"
    /\ player_guess = <<>>
    /\ task = [t \in Tasks |-> "idle"]
    /\ result = [t \in Tasks |-> NoResult]
    /\ fetched = [t \in Tasks |-> NoResult]
    /\ finished = <<>>
    /\ returned = <<>>
    /\ solver = [t \in Tasks |-> NoSolver]
    /\ runs = [t \in Tasks |-> <<>>]

\* A search that starts from the first unvisited city instead of None.
NearestStart_some(nn, visited) ==
    LET unvisited == (0..(nn.n - 1)) \ visited
    IN [next_city |-> IF unvisited = {} THEN None
                      ELSE CHOOSE c \in unvisited : \A u \in unvisited : c <= u,
        next_dist |-> INF]

\* next_city = None; next_dist = float("inf")
NearestStart(nn, visited) == [next_city |-> None, next_dist |-> INF]

\* One iteration of for _ in range(n - 1): the scan, then the raise or the
\* append.
NearestStep ==
    /\ frame.at = "nearest_neighbor"
    /\ frame.left > 0
    /\ LET best == NN_scan(frame.nn, frame.visited, frame.current, 0,
                           NearestStart(frame.nn, frame.visited))
       IN frame' = IF best.next_city = None
                   THEN [frame EXCEPT !.at = "raised"]
                   ELSE [frame EXCEPT !.tour = Append(@, best.next_city),
                                      !.visited = @ \cup {best.next_city},
                                      !.current = best.next_city,
                                      !.left = @ - 1]
    /\ UNCHANGED <<distance_matrix, main_city, player_selected_cities, is_won,
                   algorithm_times, pc, player_guess, task, result, fetched, finished,
                   returned, solver, runs>>

\* tour.append(0); return tour; two_opt starts with improved = True on the
\* same list.
NearestReturn ==
    /\ frame.at = "nearest_neighbor"
    /\ frame.left = 0
    /\ frame' = [frame EXCEPT !.tour = Append(@, 0),
                              !.nn_tour = Append(frame.tour, 0),
                              !.improved = TRUE,
                              !.at = "while"]
    /\ UNCHANGED <<distance_matrix, main_city, player_selected_cities, is_won,
                   algorithm_times, pc, player_guess, task, result, fetched, finished,
                   returned, solver, runs>>

\* while improved
KeepScanning(improved) == improved

\* The for loops with i stopping one short: range(1, n - 3).
NextPair_short(n, i, j) ==
    IF j + 1 < n - 1 THEN <<i, j + 1>>
    ELSE IF i + 1 < n - 3 THEN <<i + 1, i + 2>>
    ELSE <<>>

\* for i in range(1, n - 2): for j in range(i + 1, n - 1): the pair after
\* (i, j), or <<>> at the end of the loops.
NextPair(n, i, j) ==
    IF j + 1 < n - 1 THEN <<i, j + 1>>
    ELSE IF i + 1 < n - 2 THEN <<i + 1, i + 2>>
    ELSE <<>>

\* The while test passes: improved = False, and the for loops begin (with
\* fewer than four positions they have no pair).
PassStart ==
    /\ frame.at = "while"
    /\ KeepScanning(frame.improved)
    /\ frame' = IF 1 < Len(frame.tour) - 2
                THEN [frame EXCEPT !.improved = FALSE, !.reversals = 0,
                                   !.at = "scan", !.i = 1, !.j = 2]
                ELSE [frame EXCEPT !.improved = FALSE, !.reversals = 0]
    /\ UNCHANGED <<distance_matrix, main_city, player_selected_cities, is_won,
                   algorithm_times, pc, player_guess, task, result, fetched, finished,
                   returned, solver, runs>>

\* The body of the inner for loop at (i, j), and the step to the next pair.
Compare ==
    /\ frame.at = "scan"
    /\ LET better == TwoOptImproves(frame.nn, frame.tour, frame.i, frame.j)
           next == NextPair(Len(frame.tour), frame.i, frame.j)
           swapped == IF better
                      THEN [frame EXCEPT !.tour = ReverseSegment(@, frame.i, frame.j),
                                         !.improved = TRUE,
                                         !.reversals = @ + 1]
                      ELSE frame
       IN frame' = IF next = <<>>
                   THEN [swapped EXCEPT !.at = "while", !.i = 0, !.j = 0]
                   ELSE [swapped EXCEPT !.i = next[1], !.j = next[2]]
    /\ UNCHANGED <<distance_matrix, main_city, player_selected_cities, is_won,
                   algorithm_times, pc, player_guess, task, result, fetched, finished,
                   returned, solver, runs>>

\* The while test fails: two_opt returns, start() computes the cost and the
\* labels.
Return ==
    /\ frame.at = "while"
    /\ ~KeepScanning(frame.improved)
    /\ frame' = [frame EXCEPT !.at = "done",
                              !.cost = compute_cost(frame.nn, frame.tour),
                              !.str_tour = [p \in 1..Len(frame.tour) |->
                                              At(frame.nn.ordered_city_list, frame.tour[p])]]
    /\ UNCHANGED <<distance_matrix, main_city, player_selected_cities, is_won,
                   algorithm_times, pc, player_guess, task, result, fetched, finished,
                   returned, solver, runs>>

HeurNext == NearestStep \/ NearestReturn \/ PassStart \/ Compare \/ Return

HeurSpec == HeurInit /\ [][HeurNext]_vars

\* The interpreter goes on to the next statement.
HeurLive == HeurSpec /\ WF_vars(HeurNext)

\* ============================================================= properties
Done(t) == task[t] = "done"

AllDone == \A t \in Tasks : Done(t)

\* Every ordering of a list of distinct cities.
Orderings(chosen) ==
    {p \in [1..Len(chosen) -> Range(chosen)] :
        \A a, b \in 1..Len(chosen) : a # b => p[a] # p[b]}

\* The least length, by label on dist, of a tour home -> ordering -> home.
OptimalLength(home, chosen, dist) ==
    LET lengths == {LabelTourLength(<<home>> \o p \o <<home>>, dist, Cities) : p \in Orderings(chosen)}
    IN CHOOSE m \in lengths : \A l \in lengths : m <= l

\* tour starts and ends with home, has len(chosen) + 2 labels, and its
\* interior holds every chosen label once and nothing else.
IsClosedTour(tour, home, chosen) ==
    /\ Len(tour) = Len(chosen) + 2
    /\ tour[1] = home
    /\ tour[Len(tour)] = home
    /\ LET interior == SubSeq(tour, 2, Len(tour) - 1)
       IN /\ Range(interior) = Range(chosen)
          /\ \A a, b \in 1..Len(interior) : a # b => interior[a] # interior[b]

\* The same for a tour of local indices 0..n-1, home being 0.
IsLocalTour(tour, n) ==
    /\ Len(tour) = n + 1
    /\ tour[1] = 0
    /\ tour[n + 1] = 0
    /\ {tour[p] : p \in 2..n} = 1..(n - 1)

\* The instance the tests construct for the input of the state.
DirectNN == NN_init(main_city, player_selected_cities,
                    nn_matrix(main_city, player_selected_cities, distance_matrix, Cities))

\* ------------------------------------------------- the solvers (SolverSpec)
\* C1: on every valid input the cost BruteForce.start returns equals the
\* cost HeldKarpDP.start returns.
C1_ExactSolversAgree ==
    (Done("bf") /\ Done("hk")) => result["bf"].cost = result["hk"].cost

\* Both exact solvers have returned on three chosen cities, with a tour that
\* is dearer than the cheapest conceivable and on which they differ.
C1_Witness ==
    /\ Done("bf") /\ Done("hk")
    /\ Len(player_selected_cities) = 3
    /\ result["bf"].cost = result["hk"].cost
    /\ result["bf"].cost > 4 * DistMin
    /\ result["bf"].tour # result["hk"].tour

\* C4: on every valid input the cost NearestNeighbor2Opt.start returns is at
\* least min(Brute-Force cost, Held-Karp cost) for the same home city, chosen
\* cities and distances.
C4_HeuristicBound ==
    AllDone =>
        result["nn"].cost >= (IF result["bf"].cost < result["hk"].cost
                              THEN result["bf"].cost ELSE result["hk"].cost)

\* All three solvers have returned and two_opt has shortened the tour
\* nearest_neighbor built.
C4_Witness ==
    /\ AllDone
    /\ Len(player_selected_cities) = 3
    /\ compute_cost(DirectNN, nearest_neighbor(DirectNN).tour) > result["nn"].cost
    /\ result["nn"].cost >= result["bf"].cost

\* C5: every tour BruteForce.start or HeldKarpDP.start returns starts and
\* ends with the home label, has chosen_count + 2 labels and an interior that
\* is a permutation of the chosen labels; the parent-pointer walk of
\* Held-Karp from (full_mask, last) visits every local index once and ends
\* at local index 0.
C5_ExactToursValid ==
    /\ \A t \in {"bf", "hk"} :
          Done(t) => IsClosedTour(result[t].tour, main_city, player_selected_cities)
    /\ (Done("hk") /\ Len(player_selected_cities) > 0) =>
          LET hk == HK_init(main_city, Cities, distance_matrix, player_selected_cities)
              t == HK_table(hk)
              walk == HK_walk(t, Pow2(HK_n(hk)) - 1, HK_close(hk, t).last, <<>>)
          IN /\ Len(walk) = HK_n(hk)
             /\ walk[Len(walk)] = 0
             /\ Range(walk) = 0..(HK_n(hk) - 1)

\* Both exact solvers have returned a tour over three chosen cities, and
\* Held-Karp's visits them in another order than the input lists them.
C5_Witness ==
    /\ Done("bf") /\ Done("hk")
    /\ Len(player_selected_cities) = 3
    /\ SubSeq(result["hk"].tour, 2, 4) # player_selected_cities

\* C6: the tour NearestNeighbor2Opt.start returns starts and ends with the
\* home city and visits each chosen city exactly once; nearest_neighbor
\* builds such a tour, and every reversal two_opt can apply to such a tour
\* keeps positions 0 and last at the home city and the interior a
\* permutation of the chosen cities.
C6_HeuristicTourValid ==
    Done("nn") =>
        LET nn == DirectNN
            first == nearest_neighbor(nn)
            n == Len(first.tour)
        IN /\ IsClosedTour(result["nn"].tour, main_city, player_selected_cities)
           /\ ~first.raised
           /\ IsLocalTour(first.tour, nn.n)
           /\ \A p \in Orderings([k \in 1..(nn.n - 1) |-> k]) :
                 \A i \in 1..(n - 3) : \A j \in (i + 1)..(n - 2) :
                     IsLocalTour(ReverseSegment(<<0>> \o p \o <<0>>, i, j), nn.n)

\* The heuristic has returned a tour that two_opt changed by a reversal.
C6_Witness ==
    /\ Done("nn")
    /\ Len(player_selected_cities) = 3
    /\ two_opt(DirectNN, nearest_neighbor(DirectNN).tour) # nearest_neighbor(DirectNN).tour

\* ------------------------------------------- one round (RoundSpec, Spec)
\* What the three tasks returned, in the order run_algorithms lists them.
TaskResults == <<result["bf"], result["hk"], result["nn"]>>

\* The first record of least cost in a list of results.
FirstOfLeastCost(rs) ==
    LET least == CHOOSE c \in {rs[i].cost : i \in 1..Len(rs)} :
                     \A i \in 1..Len(rs) : c <= rs[i].cost
        first == CHOOSE i \in 1..Len(rs) :
                     rs[i].cost = least /\ \A j \in 1..(i - 1) : rs[j].cost # least
    IN rs[first]

SameSequence(a, b) == Len(a) = Len(b) /\ \A i \in 1..Len(a) : a[i] = b[i]

\* C2: the tour run_algorithms returns as canonical has, measured by city
\* label on the round's distance matrix, the least length of all tours
\* home -> ordering of the chosen cities -> home.
C2_CanonicalTourIsOptimal ==
    returned # <<>> =>
        LabelTourLength(returned[1].best_path, distance_matrix, Cities)
            = OptimalLength(main_city, player_selected_cities, distance_matrix)

\* C3: the cost every solver task of run_algorithms reports is the length of
\* the tour it returns, measured by city label on the round's distance
\* matrix.
C3_ReportedCostIsTourLength ==
    \A t \in Tasks :
        Done(t) => result[t].cost = LabelTourLength(result[t].tour, distance_matrix, Cities)

\* C7: the canonical tour is the tour of the result of least reported cost,
\* and among results of equal least cost that of the first in the order
\* Brute Force, Held-Karp, Nearest Neighbor 2-Opt.
C7_CanonicalIsFirstOfLeastCost ==
    returned # <<>> => returned[1].best_path = FirstOfLeastCost(TaskResults).tour

\* A verdict where Brute Force and Held-Karp report the same least cost with
\* different tours, and the canonical tour is that of Brute Force.
C7_Witness ==
    /\ returned # <<>>
    /\ result["bf"].cost = result["hk"].cost
    /\ result["bf"].cost <= result["nn"].cost
    /\ result["bf"].tour # result["hk"].tour
    /\ returned[1].best_path = result["bf"].tour

\* C8: is_won is true exactly when the guess has the length of the canonical
\* tour and the same label at every position.
C8_WonIffSameSequence ==
    returned # <<>> =>
        /\ is_won = <<SameSequence(player_guess, returned[1].best_path)>>
        /\ returned[1].is_won = SameSequence(player_guess, returned[1].best_path)

\* A lost round whose guess is a closed tour over the chosen cities of the
\* same length by label as the canonical tour.
C8_Witness ==
    /\ returned # <<>>
    /\ is_won = <<FALSE>>
    /\ IsClosedTour(player_guess, main_city, player_selected_cities)
    /\ player_guess # returned[1].best_path
    /\ LabelTourLength(player_guess, distance_matrix, Cities)
           = LabelTourLength(returned[1].best_path, distance_matrix, Cities)

\* The verdict as a function of the arguments of the call alone.
VerdictOf(guess, main, selected, dist) ==
    LET best == FirstOfLeastCost(<<run_brute_force(main, selected, dist, Cities),
                                   run_held_karp(main, selected, dist, Cities),
                                   run_nn_2opt(main, selected, dist)>>)
    IN [is_won |-> guess = best.tour, best_path |-> best.tour]

\* C9: whatever the order in which the three tasks finish, run_algorithms
\* returns the same (is_won, best_path), a function of the guess, the home
\* city, the chosen cities and the matrix.
C9_VerdictIgnoresCompletionOrder ==
    returned # <<>> =>
        /\ returned[1] = VerdictOf(player_guess, main_city, player_selected_cities, distance_matrix)
        /\ is_won = <<returned[1].is_won>>

\* A verdict after the tasks finished in the reverse of their dispatch
\* order, Brute Force and Held-Karp having tied on different tours.
C9_Witness ==
    /\ returned # <<>>
    /\ finished = <<"nn", "hk", "bf">>
    /\ result["bf"].cost = result["hk"].cost
    /\ result["bf"].tour # result["hk"].tour

\* The phase of a round the UI thread is in.
Phase ==
    CASE pc = "idle" -> "Idle"
      [] pc = "chosen" -> "CitiesChosen"
      [] pc \in {"get_bf", "get_hk", "get_nn"} -> "Solving"
      [] pc \in {"verdict", "popup"} -> "Verdict"
      [] OTHER -> "None"

\* The phase changes of a round; the last is the check abandoned on an empty
\* guess, before any solving.
PhaseSteps ==
    {<<"Idle", "CitiesChosen">>, <<"CitiesChosen", "Solving">>, <<"Solving", "Verdict">>,
     <<"Verdict", "Idle">>, <<"CitiesChosen", "Idle">>}

Count(s, x) == Cardinality({i \in 1..Len(s) : s[i] = x})

AllKnown == main_city \in Range(Cities) /\ Range(player_selected_cities) \subseteq Range(Cities)

Constructed(t) == solver[t] # NoSolver

C12_ExactSolversFilterHome ==
    /\ (Constructed("bf") /\ AllKnown) =>
          /\ solver["bf"].built
          /\ main_city \notin Range(solver["bf"].self.choosen_cities)
          /\ Range(solver["bf"].self.choosen_cities) = Range(player_selected_cities) \ {main_city}
    /\ (Constructed("hk") /\ AllKnown) =>
          /\ solver["hk"].built
          /\ At(solver["hk"].self.ordered_city_list, 0) = main_city
          /\ Count(solver["hk"].self.ordered_city_list, main_city) = 1

\* BruteForce was constructed on a list of three that holds the home city,
\* and start() has returned a tour over the other two.
C12_Witness ==
    /\ main_city \in Range(player_selected_cities)
    /\ Len(player_selected_cities) = 3
    /\ solver["bf"].built
    /\ Len(runs["bf"]) > 0
    /\ Len(runs["bf"][1].tour) = 4

\* C13: NearestNeighbor2Opt.ordered_city_list starts with the main city and
\* holds it exactly once, also when the selected list holds the main city.
C13_HeuristicFiltersHome ==
    Constructed("nn") =>
        /\ At(solver["nn"].self.ordered_city_list, 0) = main_city
        /\ Count(solver["nn"].self.ordered_city_list, main_city) = 1

\* C16: a home city or chosen city outside the global label set makes every
\* solver raise at construction: no solver object is built and no start()
\* returns.
C16_UnknownLabelRaisesAtConstruction ==
    ~AllKnown =>
        \A t \in Tasks : Constructed(t) => (~solver[t].built /\ solver[t].raised # "none")

\* C18: a second start() on the same BruteForce or HeldKarpDP object returns
\* the cost the first returned.
C18_RepeatedStartSameCost ==
    \A t \in {"bf", "hk"} :
        \A a, b \in 1..Len(runs[t]) : runs[t][a].cost = runs[t][b].cost

\* start() has returned twice on one BruteForce object over three chosen
\* cities, whose best_distance still holds the first result.
C18_Witness ==
    /\ Len(runs["bf"]) = 2
    /\ Len(solver["bf"].self.choosen_cities) = 3
    /\ solver["bf"].self.best_distance = runs["bf"][1].cost
    /\ runs["bf"][1].cost > 4 * DistMin

\* ------------------------------------------- edge cases (SolverSpec)
\* C14: with no chosen city every solver returns cost 0 and the tour
\* [home, home].
C14_NoChosenCity ==
    \A t \in Tasks :
        (Done(t) /\ Len(player_selected_cities) = 0) =>
            result[t].cost = 0 /\ result[t].tour = <<main_city, main_city>>

\* The three solvers have returned on an empty list.
C14_Witness == AllDone /\ Len(player_selected_cities) = 0

\* C15: with one chosen city X every solver returns cost
\* d(home, X) + d(X, home) and the tour [home, X, home].
C15_OneChosenCity ==
    \A t \in Tasks :
        (Done(t) /\ Len(player_selected_cities) = 1) =>
            LET X == player_selected_cities[1]
                h == IndexOf(Cities, main_city)
                x == IndexOf(Cities, X)
            IN /\ result[t].cost = distance_matrix[h][x] + distance_matrix[x][h]
               /\ result[t].tour = <<main_city, X, main_city>>

\* The three solvers have returned on one chosen city at more than the
\* least distance from the home city.
C15_Witness ==
    /\ AllDone
    /\ Len(player_selected_cities) = 1
    /\ result["nn"].cost > 2 * DistMin

\* --------------------------------------------- the Game object (Spec)
WellFormedMatrix(m) ==
    /\ DOMAIN m = CityIdx
    /\ \A i \in CityIdx :
          /\ DOMAIN m[i] = CityIdx
          /\ m[i][i] = 0
          /\ \A j \in CityIdx \ {i} : m[i][j] = m[j][i] /\ m[i][j] \in DistMin..DistMax

\* C19: after construction and after every reset_game the distance matrix
\* is square over the cities, symmetric, zero on the diagonal, with every
\* other entry in DistMin..DistMax; main_city is one of the cities; and
\* player_selected_cities is empty.
C19_GameWellFormed ==
    /\ player_selected_cities = <<>>
    /\ [](WellFormedMatrix(distance_matrix) /\ main_city \in Range(Cities))
    /\ [][(distance_matrix' # distance_matrix \/ main_city' # main_city
              \/ (pc = "popup" /\ pc' = "idle"))
            => player_selected_cities' = <<>>]_vars

\* A round was judged and reset_game has run: the selection is empty again
\* and the new matrix has an entry above the least distance.
C19_Witness ==
    /\ pc = "idle"
    /\ is_won # <<>>
    /\ player_selected_cities = <<>>
    /\ \E i, j \in CityIdx : distance_matrix[i][j] > DistMin

\* ------------------------------------------ a failing task (FaultSpec)
Failed(t) == task[t] = "failed"

\* C17: when a solver task raises, run_algorithms raises to its caller: it
\* returns no verdict, and no step of the call writes is_won or
\* algorithm_times.
C17_TaskFailureSurfaces ==
    /\ []((pc = "verdict") => \A t \in Tasks : ~Failed(t))
    /\ []((pc = "raised") => returned = <<>>)
    /\ [][((\E t \in Tasks : Failed(t)) \/ (\E t \in Tasks : Failed(t))')
            => /\ is_won' = is_won
               /\ algorithm_times' = algorithm_times
               /\ returned' = <<>>]_vars

\* run_algorithms has raised while the Nearest Neighbor task had returned a
\* result, in a Game whose earlier round left a verdict and timings.
C17_Witness ==
    /\ pc = "raised"
    /\ Failed("bf")
    /\ task["nn"] = "done"
    /\ result["nn"] # NoResult
    /\ is_won # <<>>
    /\ algorithm_times # <<>>

PermutedBefore(p, q, chosen) ==
    \E k \in 1..Len(p) :
        /\ \A a \in 1..(k - 1) : p[a] = q[a]
        /\ IndexOf(chosen, p[k]) < IndexOf(chosen, q[k])

ClosedLength(p) ==
    LabelTourLength(<<main_city>> \o p \o <<main_city>>, distance_matrix, Cities)

\* C21: among the orderings of the chosen cities of least total cost,
\* BruteForce.start returns the one that comes first in the order of the
\* permutation generator (lexicographic on the input order).
C21_BruteForceFirstFoundWins ==
    (Done("bf") /\ Len(player_selected_cities) > 0) =>
        LET p == SubSeq(result["bf"].tour, 2, Len(result["bf"].tour) - 1)
        IN /\ p \in Orderings(player_selected_cities)
           /\ \A q \in Orderings(player_selected_cities) :
                 /\ ClosedLength(p) <= ClosedLength(q)
                 /\ (ClosedLength(q) = ClosedLength(p) /\ q # p)
                       => PermutedBefore(p, q, player_selected_cities)

\* Brute Force has returned on three cities listed out of label order, with
\* another ordering of the same least cost, and not all orderings tie.
C21_Witness ==
    /\ Done("bf")
    /\ Len(player_selected_cities) = 3
    /\ IndexOf(Cities, player_selected_cities[1]) > IndexOf(Cities, player_selected_cities[2])
    /\ \E q \in Orderings(player_selected_cities) :
          /\ q # SubSeq(result["bf"].tour, 2, 4)
          /\ ClosedLength(q) = result["bf"].cost
    /\ \E q \in Orderings(player_selected_cities) : ClosedLength(q) > result["bf"].cost

\* C23: the sum of the hk_matrix distances along the local-index path
\* HeldKarpDP.start reconstructs, closing edge included, is the min_cost it
\* returns, and min_cost is finite.
C23_HeldKarpTourRealizesCost ==
    (Done("hk") /\ Len(player_selected_cities) > 0) =>
        LET hk == HK_init(main_city, Cities, distance_matrix, player_selected_cities)
            t == HK_table(hk)
            c == HK_close(hk, t)
            path == HK_path(hk, t, c.last)
            along == [a \in 1..(Len(path) - 1) |-> hk.hk_matrix[path[a]][path[a + 1]]]
            Sum[a \in 0..Len(along)] == IF a = 0 THEN 0 ELSE Sum[a - 1] + along[a]
        IN /\ result["hk"].cost < INF
           /\ Sum[Len(along)] = result["hk"].cost
           /\ LabelTourLength(result["hk"].tour, distance_matrix, Cities) = result["hk"].cost

\* Held-Karp has returned on three chosen cities a tour that is cheaper
\* than another ordering and does not end at the last local index.
C23_Witness ==
    /\ Done("hk")
    /\ Len(player_selected_cities) = 3
    /\ result["hk"].tour[4] # player_selected_cities[3]
    /\ \E q \in Orderings(player_selected_cities) : ClosedLength(q) > result["hk"].cost

\* The HeldKarpDP object of the state's input.
StateHK == HK_init(main_city, Cities, distance_matrix, player_selected_cities)

\* The local indices of a bitmask.
Members(mask, n) == {k \in 0..(n - 1) : Bit(mask, k)}

\* Cost on hk_matrix of the path of local indices s.
PathCost(hk, s) ==
    LET Sum[a \in 1..Len(s)] ==
            IF a = 1 THEN 0 ELSE Sum[a - 1] + hk.hk_matrix[s[a - 1]][s[a]]
    IN Sum[Len(s)]

\* The least cost of a path from 0 through every member of mask once,
\* ending at j (0 and j are members of mask, j # 0).
MinPathCost(hk, mask, j) ==
    LET between == Members(mask, HK_n(hk)) \ {0, j}
        k == Cardinality(between)
        costs == {PathCost(hk, <<0>> \o p \o <<j>>) :
                     p \in {q \in [1..k -> between] : \A a, b \in 1..k : a # b => q[a] # q[b]}}
    IN CHOOSE m \in costs : \A c \in costs : m <= c

\* C22: with at least one chosen city, after the fill loop dp[1][0] = 0;
\* for every mask with bit 0 and every j # 0 in the mask, dp[mask][j] is
\* finite and is the least cost of a path from local index 0 through
\* exactly the cities of the mask to j; every other entry is infinite.
C22_HeldKarpTable ==
    (Done("hk") /\ Len(player_selected_cities) > 0) =>
        LET hk == StateHK
            n == HK_n(hk)
            t == HK_table(hk)
        IN \A mask \in 0..(Pow2(n) - 1) : \A j \in 0..(n - 1) :
              IF mask = 1 /\ j = 0 THEN t.dp[mask][j] = 0
              ELSE IF Bit(mask, 0) /\ j # 0 /\ Bit(mask, j)
                   THEN t.dp[mask][j] < INF /\ t.dp[mask][j] = MinPathCost(hk, mask, j)
                   ELSE t.dp[mask][j] = INF

\* Held-Karp has run on three chosen cities, and the entry of the full mask
\* ending at the last city takes its minimum from the second of the two
\* predecessors, the path through the first being dearer.
C22_Witness ==
    /\ Done("hk")
    /\ Len(player_selected_cities) = 3
    /\ LET hk == StateHK
           t == HK_table(hk)
       IN /\ t.parent[15][3] = 2
          /\ t.dp[15][3] < Plus(t.dp[7][1], hk.hk_matrix[1][3])

\* The global indices of the home city and the chosen cities.
Concerned == {IndexOf(Cities, c) : c \in {main_city} \cup Range(player_selected_cities)}

\* m with every entry that has an index outside keep replaced by v.
Elsewhere(m, keep, v) ==
    [i \in CityIdx |-> [j \in CityIdx |-> IF i \in keep /\ j \in keep THEN m[i][j] ELSE v]]

\* C30: BruteForce.start and HeldKarpDP.start return the same (cost, tour)
\* on every matrix that agrees with the given one between the home city
\* and the chosen cities: each returns on the given matrix what it returns
\* once every other entry is overwritten, whatever the value written.
C30_ExactSolversReadOnlyConcerned ==
    \A t \in {"bf", "hk"} :
        Done(t) =>
            \A v \in {0, DistMin, DistMax} :
                LET other == SolveDirect(t, main_city, player_selected_cities,
                                         Elsewhere(distance_matrix, Concerned, v), Cities)
                IN result[t].cost = other.cost /\ result[t].tour = other.tour

\* Both exact solvers have returned on three chosen cities, with a distance
\* above the least one between cities that are not all concerned.
C30_Witness ==
    /\ Done("bf") /\ Done("hk")
    /\ Len(player_selected_cities) = 3
    /\ \E i, j \in CityIdx :
          /\ ~(i \in Concerned /\ j \in Concerned)
          /\ distance_matrix[i][j] > DistMin

\* -------------------------------------- the heuristic's steps (HeurSpec)
\* start() as one evaluation gives what the steps give.
StepsAgreeWithStart ==
    /\ (frame.at = "done") =>
          LET r == NN_start(frame.nn)
          IN ~r.raised /\ r.cost = frame.cost /\ r.tour = frame.str_tour
    /\ (frame.at = "raised") => NN_start(frame.nn).raised

\* The tour as nearest_neighbor has built it so far (the closing 0 left out).
Constructed_tour ==
    IF frame.at \in {"nearest_neighbor", "raised"} THEN frame.tour
    ELSE SubSeq(frame.nn_tour, 1, Len(frame.nn_tour) - 1)

Unvisited(p) == (0..(frame.nn.n - 1)) \ {Constructed_tour[a] : a \in 1..(p - 1)}

\* The cities still to visit that have a finite distance from the current
\* city, when the frame is at the head of the for _ loop.
Reachable ==
    {u \in (0..(frame.nn.n - 1)) \ frame.visited : frame.nn.dist[frame.current][u] < INF}

FiniteMatrix ==
    \A a, b \in 0..(frame.nn.n - 1) : frame.nn.dist[a][b] < INF

\* Cost of a tour of local indices, an infinite edge making it infinite.
TourCost(tour) == compute_cost(frame.nn, tour)

\* The pairs (i, j) the for loops of two_opt go through on a tour.
ScanPairs(tour) ==
    {e \in (1..(Len(tour) - 3)) \X (2..(Len(tour) - 2)) : e[1] < e[2]}

ImprovingPairs(tour) ==
    {e \in ScanPairs(tour) :
        Plus(frame.nn.dist[At(tour, e[1] - 1)][At(tour, e[2])],
             frame.nn.dist[At(tour, e[1])][At(tour, e[2] + 1)])
        < Plus(frame.nn.dist[At(tour, e[1] - 1)][At(tour, e[1])],
               frame.nn.dist[At(tour, e[2])][At(tour, e[2] + 1)])}

\* C24: every city nearest_neighbor appends was unvisited, at the least
\* distance from the city before it among the unvisited ones, and the one
\* of lowest local index among the unvisited cities at that distance.
C24_NearestLowestIndex ==
    (frame.at # "none") =>
        \A p \in 2..Len(Constructed_tour) :
            LET c == Constructed_tour[p]
                from == Constructed_tour[p - 1]
            IN /\ c \in Unvisited(p)
               /\ \A u \in Unvisited(p) :
                     /\ frame.nn.dist[from][c] <= frame.nn.dist[from][u]
                     /\ (frame.nn.dist[from][c] = frame.nn.dist[from][u]) => c <= u

\* nearest_neighbor has returned a tour on four cities in which one step
\* passed over a lower index for a nearer city and another step chose the
\* lower of two cities at the same distance.
C24_Witness ==
    /\ frame.at = "while"
    /\ frame.nn.n = 4
    /\ \E p \in 2..4 : \E u \in Unvisited(p) : u < Constructed_tour[p]
    /\ \E p \in 2..4 : \E u \in Unvisited(p) :
          /\ u # Constructed_tour[p]
          /\ frame.nn.dist[Constructed_tour[p - 1]][u]
                = frame.nn.dist[Constructed_tour[p - 1]][Constructed_tour[p]]

\* C25: an iteration of nearest_neighbor raises exactly when no city still
\* to visit has a finite distance from the current city, and then no tour
\* is returned; on a matrix without infinite entries it never raises.
C25_UnreachableRaises ==
    /\ [][(frame.at = "nearest_neighbor" /\ frame.left > 0 /\ frame' # frame)
            => ((frame'.at = "raised") <=> (Reachable = {}))]_vars
    /\ []((frame.at = "raised") => (frame.nn_tour = <<>> /\ frame.str_tour = <<>>))
    /\ []((frame.at # "none" /\ FiniteMatrix) => frame.at # "raised")

\* nearest_neighbor has raised at its third step, after two steps that found
\* a city, on a matrix that has finite distances left to other cities.
C25_Witness ==
    /\ frame.at = "raised"
    /\ Len(frame.tour) = 3
    /\ \E a, b \in 0..(frame.nn.n - 1) : a # b /\ frame.nn.dist[a][b] < INF

\* C26: on the tour two_opt returns, no pair i < j of the scanned positions
\* has dist[t[i-1]][t[j]] + dist[t[i]][t[j+1]] strictly below
\* dist[t[i-1]][t[i]] + dist[t[j]][t[j+1]].
C26_TwoOptLocalOptimum ==
    (frame.at = "done") => ImprovingPairs(frame.tour) = {}

\* two_opt has returned on four cities a tour it changed, one that the
\* nearest-neighbor construction did not leave locally optimal.
C26_Witness ==
    /\ frame.at = "done"
    /\ frame.nn.n = 4
    /\ frame.tour # frame.nn_tour
    /\ ImprovingPairs(frame.nn_tour) # {}

\* C27: on a matrix of finite distances every reversal two_opt applies
\* makes the tour strictly cheaper, and start() comes to its end: it
\* returns, or nearest_neighbor raises.
C27_TwoOptTerminates ==
    /\ [][(frame.at = "scan" /\ FiniteMatrix /\ frame'.tour # frame.tour)
            => TourCost(frame.tour)' < TourCost(frame.tour)]_vars
    /\ <>(frame.at \in {"done", "raised"})

\* two_opt has returned after a pass that applied a reversal and a further
\* pass that found nothing.
C27_Witness ==
    /\ frame.at = "done"
    /\ frame.nn.n = 4
    /\ TourCost(frame.tour) < TourCost(frame.nn_tour)

\* C28: a reversal ends the pass it is applied in, the scan starting again
\* from i = 1: a pass applies at most one reversal.
C28_RestartAfterSwap ==
    /\ [][(frame.at = "scan" /\ frame'.tour # frame.tour) => frame'.at = "while"]_vars
    /\ [](frame.at # "none" => frame.reversals <= 1)

\* C29: the tour two_opt returns costs no more than the tour
\* nearest_neighbor built, and strictly less when that tour had a finite
\* cost and an improving pair.
C29_TwoOptNeverWorse ==
    (frame.at = "done") =>
        /\ TourCost(frame.tour) <= TourCost(frame.nn_tour)
        /\ (ImprovingPairs(frame.nn_tour) # {} /\ TourCost(frame.nn_tour) < INF)
              => TourCost(frame.tour) < TourCost(frame.nn_tour)

\* C29 as stated, for every symmetric matrix: strictly less whenever the
\* nearest-neighbor tour had an improving pair, whatever its cost.
C29_StrictlyLessOnAnyMatrix ==
    (frame.at = "done" /\ ImprovingPairs(frame.nn_tour) # {})
        => TourCost(frame.tour) < TourCost(frame.nn_tour)

\* start() has returned a cost below that of the nearest-neighbor tour, on
\* a matrix without infinite distances.
C29_Witness ==
    /\ frame.at = "done"
    /\ FiniteMatrix
    /\ ImprovingPairs(frame.nn_tour) # {}
    /\ frame.cost < TourCost(frame.nn_tour)

====
